---- MODULE Spec2Model ----
(***************************************************************************)
(* Model of scripts/generate_waf_assessment_excel.py: main() checks that   *)
(* the two input files exist, build_workbook() reads them, builds the five *)
(* sheets of the report and saves the workbook.                            *)
(*                                                                         *)
(* Python values are tagged records.  A str read from an input file is a   *)
(* sequence of runs [ch |-> code point, n |-> repetitions], so that cell   *)
(* strings of tens of thousands of characters stay small; a str embedded   *)
(* in the program is a TLA+ string.  The CSV file is modelled after        *)
(* csv.reader's tokenisation: a sequence of lines, each a sequence of      *)
(* fields, a blank line being the empty sequence.  Fonts, fills,           *)
(* alignments and column widths are not modelled, but the cells that the   *)
(* styling loops touch (and so create) are.                                *)
(***************************************************************************)
EXTENDS Integers, Sequences, FiniteSets, TLC

VARIABLES pc, arch_file, csv_file, today, out_dir, out_file, fs_log,
          architecture_md, support_cases, wb, exc, stdout, ret

vars == <<pc, arch_file, csv_file, today, out_dir, out_file, fs_log,
          architecture_md, support_cases, wb, exc, stdout, ret>>

(***************************************************************************)
(* Bounds of the enumerated inputs.                                        *)
(***************************************************************************)
MaxCols == 2
MaxRows == 2

(***************************************************************************)
(* Python values.                                                          *)
(***************************************************************************)
None == [kind |-> "None"]
Lit(s) == [kind |-> "lit", s |-> s]
PyStr(runs) == [kind |-> "str", runs |-> runs]
PyInt(i) == [kind |-> "int", i |-> i]
PyList(xs) == [kind |-> "list", items |-> xs]

Chr(c) == <<[ch |-> c, n |-> 1]>>
Rep(c, k) == IF k = 0 THEN <<>> ELSE <<[ch |-> c, n |-> k]>>

RECURSIVE StrLen(_)
StrLen(runs) == IF runs = <<>> THEN 0 ELSE Head(runs).n + StrLen(Tail(runs))

\* runs[:k]
RECURSIVE Take(_, _)
Take(runs, k) ==
  IF runs = <<>> \/ k <= 0 THEN <<>>
  ELSE IF Head(runs).n >= k THEN <<[ch |-> Head(runs).ch, n |-> k]>>
  ELSE <<Head(runs)>> \o Take(Tail(runs), k - Head(runs).n)

\* openpyxl ILLEGAL_CHARACTERS_RE: [\000-\010]|[\013-\014]|[\016-\037]
IsIllegalChar(c) == (0 <= c /\ c <= 8) \/ (11 <= c /\ c <= 12) \/ (14 <= c /\ c <= 31)

\* The longest string a cell holds (openpyxl Cell.check_string).
CellMaxLen == 32767

\* Cell.check_string: truncate to 32767 characters, then reject illegal ones.
check_string_trunc(runs) == Take(runs, CellMaxLen)
check_string_raises(runs) ==
  \E i \in 1..Len(check_string_trunc(runs)) : IsIllegalChar(check_string_trunc(runs)[i].ch)

\* Cell._bind_value: the value and data type a cell takes, or a ValueError
\* (a list) or IllegalCharacterError (a str with control characters).
BindRaises(v) ==
  \/ v.kind = "list"
  \/ v.kind = "str" /\ check_string_raises(v.runs)

BindError(v) == IF v.kind = "list" THEN "ValueError" ELSE "IllegalCharacterError"

\* A str of more than one character that starts with "=" (code point 61) is
\* stored as a formula.
Bind(v) ==
  CASE v.kind = "None" -> [value |-> None, data_type |-> "n"]
    [] v.kind = "int" -> [value |-> v, data_type |-> "n"]
    [] v.kind = "lit" -> [value |-> v, data_type |-> "s"]
    [] v.kind = "str" ->
         LET s == check_string_trunc(v.runs)
         IN [value |-> PyStr(s),
             data_type |-> IF StrLen(s) > 1 /\ s[1].ch = 61 THEN "f" ELSE "s"]

\* openpyxl.utils.get_column_letter: bijective base 26.
Letters == <<"A", "B", "C", "D", "E", "F", "G", "H", "I", "J", "K", "L", "M",
             "N", "O", "P", "Q", "R", "S", "T", "U", "V", "W", "X", "Y", "Z">>

RECURSIVE get_column_letter(_)
get_column_letter(idx) ==
  IF idx <= Len(Letters) THEN Letters[idx]
  ELSE get_column_letter((idx - 1) \div Len(Letters)) \o Letters[((idx - 1) % Len(Letters)) + 1]

\* f"{get_column_letter(start_col)}{start_row}:{get_column_letter(end_col)}{end_row}"
RangeRef(start_row, start_col, end_row, end_col) ==
  get_column_letter(start_col) \o ToString(start_row) \o ":"
    \o get_column_letter(end_col) \o ToString(end_row)

\* A faulty variant of Pad2: no zero padding.
Pad2_NoPad(k) == ToString(k)

\* datetime.date.isoformat: "%04d-%02d-%02d"
Pad2(k) == IF k < 10 THEN "0" \o ToString(k) ELSE ToString(k)
Pad4(k) == IF k < 10 THEN "000" \o ToString(k)
           ELSE IF k < 100 THEN "00" \o ToString(k)
           ELSE IF k < 1000 THEN "0" \o ToString(k)
           ELSE ToString(k)
isoformat(d) == Pad4(d.year) \o "-" \o Pad2(d.month) \o "-" \o Pad2(d.day)

(***************************************************************************)
(* openpyxl worksheets: the cells (a function on the <<row, column>> pairs *)
(* that exist), the row ws.append writes after, the tables, the            *)
(* conditional formatting rules and the auto-filter range.                 *)
(***************************************************************************)
Max(S) == CHOOSE x \in S : \A y \in S : y <= x
Min(S) == CHOOSE x \in S : \A y \in S : x <= y

NewSheet(title) ==
  [title |-> title, freeze_panes |-> "", cells |-> [p \in {} |-> None],
   current_row |-> 0, tables |-> <<>>, conditional_formatting |-> <<>>,
   auto_filter |-> ""]

\* ws[addr] = v and ws.cell(row, column).value = v
SetCell(ws, r, c, v) ==
  [ws EXCEPT !.cells = (<<r, c>> :> Bind(v)) @@ ws.cells,
             !.current_row = IF r > ws.current_row THEN r ELSE ws.current_row]

\* ws.cell(row, column) for every cell of a block, as the styling loops and
\* iter_rows do: a cell that does not exist yet is created empty.
Touch(ws, r1, r2, c1, c2) ==
  LET new == {p \in (r1..r2) \X (c1..c2) : p \notin DOMAIN ws.cells}
  IN [ws EXCEPT !.cells = [p \in new |-> Bind(None)] @@ ws.cells,
                !.current_row = IF new # {} /\ r2 > ws.current_row THEN r2
                                ELSE ws.current_row]

\* ws.append(row): one cell per value, None included, in the row after the
\* last one used.
AppendRaises(row) == \E i \in 1..Len(row) : BindRaises(row[i])
AppendError(row) ==
  BindError(row[Min({i \in 1..Len(row) : BindRaises(row[i])})])

append(ws, row) ==
  LET r == ws.current_row + 1
  IN [ws EXCEPT !.cells = [p \in {r} \X (1..Len(row)) |-> Bind(row[p[2]])] @@ ws.cells,
                !.current_row = r]

RECURSIVE AppendAll(_, _)
AppendAll(ws, rows) ==
  IF rows = <<>> THEN ws ELSE AppendAll(append(ws, Head(rows)), Tail(rows))

\* ws.dimensions (Worksheet.calculate_dimension)
dimensions(ws) ==
  IF DOMAIN ws.cells = {} THEN "A1:A1"
  ELSE LET rs == {p[1] : p \in DOMAIN ws.cells}
           cs == {p[2] : p \in DOMAIN ws.cells}
       IN RangeRef(Min(rs), Min(cs), Max(rs), Max(cs))

\* A faulty variant of _apply_table: the last row is left out of the range.
_apply_table_OffByOne(ws, table_name, start_row, start_col, end_row, end_col) ==
  [ws EXCEPT !.tables = Append(ws.tables,
     [displayName |-> table_name,
      ref |-> RangeRef(start_row, start_col, end_row - 1, end_col),
      style |-> "TableStyleMedium9"])]

_apply_table(ws, table_name, start_row, start_col, end_row, end_col) ==
  [ws EXCEPT !.tables = Append(ws.tables,
     [displayName |-> table_name,
      ref |-> RangeRef(start_row, start_col, end_row, end_col),
      style |-> "TableStyleMedium9"])]

CellIsRule(range, operator, formula) ==
  [range |-> range, operator |-> operator, formula |-> formula]

AddRule(ws, rule) ==
  [ws EXCEPT !.conditional_formatting = Append(ws.conditional_formatting, rule)]

\* Whether a cellIs rule formats a cell holding the number v.
RuleApplies(rule, v) ==
  CASE rule.operator = "lessThan" -> v < rule.formula[1]
    [] rule.operator = "between" -> rule.formula[1] <= v /\ v <= rule.formula[2]
    [] rule.operator = "greaterThanOrEqual" -> v >= rule.formula[1]

(***************************************************************************)
(* csv.DictReader.  A dict is the sequence of its items in insertion       *)
(* order.                                                                  *)
(***************************************************************************)
Keys(d) == [i \in 1..Len(d) |-> d[i].k]
HasKey(d, k) == \E i \in 1..Len(d) : d[i].k = k

\* d[k] = v
DictSet(d, k, v) ==
  IF HasKey(d, k)
  THEN [i \in 1..Len(d) |-> IF d[i].k = k THEN [k |-> k, v |-> v] ELSE d[i]]
  ELSE Append(d, [k |-> k, v |-> v])

\* d.get(k, default)
DictGet(d, k, default) ==
  IF HasKey(d, k) THEN d[CHOOSE i \in 1..Len(d) : d[i].k = k].v ELSE default

RECURSIVE DictZip(_, _, _)
DictZip(d, names, row) ==
  IF names = <<>> \/ row = <<>> THEN d
  ELSE DictZip(DictSet(d, PyStr(Head(names)), PyStr(Head(row))), Tail(names), Tail(row))

RECURSIVE DictFill(_, _, _)
DictFill(d, names, restval) ==
  IF names = <<>> THEN d
  ELSE DictFill(DictSet(d, PyStr(Head(names)), restval), Tail(names), restval)

\* DictReader.__next__ on one non-blank row: restkey and restval are None.
DictRow(fieldnames, row) ==
  LET d == DictZip(<<>>, fieldnames, row)
      lf == Len(fieldnames)
      lr == Len(row)
  IN IF lf < lr THEN DictSet(d, None, PyList(SubSeq(row, lf + 1, lr)))
     ELSE IF lf > lr THEN DictFill(d, SubSeq(fieldnames, lr + 1, lf), None)
     ELSE d

RECURSIVE SkipBlank(_)
SkipBlank(lines) ==
  IF lines = <<>> THEN <<>>
  ELSE IF Head(lines) = <<>> THEN SkipBlank(Tail(lines))
  ELSE <<Head(lines)>> \o SkipBlank(Tail(lines))

\* A faulty variant of _read_support_cases: the header line is read as a data row too.
_read_support_cases_HeaderAsRow(lines) ==
  IF lines = <<>> THEN <<>>
  ELSE LET data == SkipBlank(lines)
       IN [i \in 1..Len(data) |-> DictRow(Head(lines), data[i])]

\* list(csv.DictReader(f)): the first line, blank or not, gives the field
\* names; blank lines after it are skipped.
_read_support_cases(lines) ==
  IF lines = <<>> THEN <<>>
  ELSE LET data == SkipBlank(Tail(lines))
       IN [i \in 1..Len(data) |-> DictRow(Head(lines), data[i])]

(***************************************************************************)
(* The literal content of the report.  The source's arrows and en dashes   *)
(* are written "->" and "-" here.                                          *)
(***************************************************************************)
SheetTitles == <<"Overview", "Scores", "Recommendations", "Roadmap", "SupportCases">>

scores_headers == <<"Pillar", "Score", "Status">>

\* A faulty variant of scores: an Overall score that is not the mean.
scores_Drift ==
  <<<<"Reliability", 68, "Fair">>,
    <<"Security", 74, "Good">>,
    <<"Cost Optimization", 64, "Fair">>,
    <<"Operational Excellence", 66, "Fair">>,
    <<"Performance Efficiency", 78, "Good">>,
    <<"Overall", 71, "Good baseline, needs hardening">>>>

scores ==
  <<<<"Reliability", 68, "Fair">>,
    <<"Security", 74, "Good">>,
    <<"Cost Optimization", 64, "Fair">>,
    <<"Operational Excellence", 66, "Fair">>,
    <<"Performance Efficiency", 78, "Good">>,
    <<"Overall", 70, "Good baseline, needs hardening">>>>

rec_headers ==
  <<"ID", "Recommendation", "Primary Pillar(s)", "Why / Evidence",
    "Risk if not addressed", "Priority", "Estimated Effort",
    "Related Support Cases", "Key Docs">>

recommendations ==
  <<[id |-> "REC-01",
     title |-> "Standardize ingress routing and health probes end-to-end (App Gateway -> ILB -> Traefik)",
     pillars |-> "Reliability, Operational Excellence",
     why |-> "Repeated ingress/probe/routing misconfig issues leading to 502s and backend unhealthy signals.",
     risk |-> "Intermittent or complete service outage; slow triage due to multi-layer routing.",
     priority |-> "High",
     effort |-> "1-3 days",
     cases |-> "120012346; 120012353",
     docs |-> "https://learn.microsoft.com/azure/application-gateway/application-gateway-probe-overview | https://learn.microsoft.com/azure/architecture/reference-architectures/containers/aks-baseline"],
    [id |-> "REC-02",
     title |-> "Automate TLS certificate lifecycle for Application Gateway using Key Vault",
     pillars |-> "Reliability, Security",
     why |-> "Certificate expiry caused TLS handshake failures and outage of public endpoints.",
     risk |-> "Public endpoint downtime and incident escalation during renewal windows.",
     priority |-> "Critical",
     effort |-> "0.5-2 days",
     cases |-> "120012347",
     docs |-> "https://learn.microsoft.com/azure/key-vault/certificates/about-certificates | https://learn.microsoft.com/azure/application-gateway/key-vault-certs"],
    [id |-> "REC-03",
     title |-> "Harden Private Link + Private DNS zone management (Key Vault, ACR)",
     pillars |-> "Security, Reliability",
     why |-> "Private Endpoint access failures caused secret retrieval and DNS resolution issues.",
     risk |-> "Workloads unable to pull images or read secrets; cascading failures.",
     priority |-> "High",
     effort |-> "1-2 days",
     cases |-> "120012348",
     docs |-> "https://learn.microsoft.com/azure/private-link/private-endpoint-dns | https://learn.microsoft.com/azure/key-vault/general/private-link-service"],
    [id |-> "REC-04",
     title |-> "Make monitoring egress explicit and continuously validated through Azure Firewall",
     pillars |-> "Operational Excellence, Reliability",
     why |-> "Firewall misconfig blocked Azure Monitor/Prometheus endpoints; telemetry gaps.",
     risk |-> "Reduced observability during incidents; delayed detection of failures.",
     priority |-> "High",
     effort |-> "1-3 days",
     cases |-> "120012350; 120012354",
     docs |-> "https://learn.microsoft.com/azure/firewall/overview | https://learn.microsoft.com/azure/azure-monitor/containers/kubernetes-monitoring-enable"],
    [id |-> "REC-05",
     title |-> "Implement AKS subnet/IP capacity planning and autoscaler guardrails",
     pillars |-> "Reliability, Performance Efficiency",
     why |-> "Autoscaling failures due to subnet IP range constraints.",
     risk |-> "Scale-out fails; pods stuck Pending; degraded performance/availability.",
     priority |-> "High",
     effort |-> "0.5-2 days",
     cases |-> "120012351",
     docs |-> "https://learn.microsoft.com/azure/aks/cluster-autoscaler | https://learn.microsoft.com/azure/aks/concepts-network"],
    [id |-> "REC-06",
     title |-> "Reduce configuration drift via IaC + policy guardrails + runbooks",
     pillars |-> "Operational Excellence, Security",
     why |-> "Pattern of incidents rooted in configuration mistakes (Bastion association, probes, routing, rules).",
     risk |-> "Recurring outages; inconsistent environments; slower recovery.",
     priority |-> "High",
     effort |-> "1-3 weeks (incremental)",
     cases |-> "120012352; 120012346; 120012353; 120012350",
     docs |-> "https://learn.microsoft.com/azure/governance/policy/overview | https://learn.microsoft.com/azure/well-architected/"]>>

roadmap_headers == <<"Horizon", "Focus", "Actions">>

roadmap ==
  <<<<"Next 7 days",
      "Stability quick wins",
      "Automate cert renewal + alerts (REC-02); standardize probes/routing (REC-01); validate monitoring egress (REC-04)">>,
    <<"Next 30 days",
      "Platform hardening",
      "Automate Private DNS/Private Link zone linking (REC-03); add subnet/IP guardrails and alerts (REC-05); add telemetry-drop alerting (REC-04)">>,
    <<"Next 90 days",
      "Operational maturity",
      "Expand IaC coverage and policy guardrails; publish runbooks and do game-day drills (REC-06)">>>>

LitRow(row) == [i \in 1..Len(row) |-> Lit(row[i])]

\* The CellIsRule ranges of the Scores sheet: f"B2:B{1 + len(scores)}"
ScoreRange == "B2:B" \o ToString(1 + Len(scores))

\* A faulty variant of ScoreRules: the middle band starts at 61.
ScoreRules_Gap ==
  <<CellIsRule(ScoreRange, "lessThan", <<60>>),
    CellIsRule(ScoreRange, "between", <<61, 79>>),
    CellIsRule(ScoreRange, "greaterThanOrEqual", <<80>>)>>

ScoreRules ==
  <<CellIsRule(ScoreRange, "lessThan", <<60>>),
    CellIsRule(ScoreRange, "between", <<60, 79>>),
    CellIsRule(ScoreRange, "greaterThanOrEqual", <<80>>)>>

(***************************************************************************)
(* The sheets, as build_workbook fills them.                               *)
(***************************************************************************)
\* wb.active of a new Workbook(), renamed; the cells up to A6
OverviewHead(date) ==
  LET w0 == [NewSheet("Sheet") EXCEPT !.title = SheetTitles[1], !.freeze_panes = "A6"]
      w1 == SetCell(w0, 1, 1, Lit("Well-Architected Framework (WAF) Assessment"))
      w2 == SetCell(w1, 3, 1, Lit("Assessment Date"))
      w3 == SetCell(w2, 3, 2, Lit(isoformat(date)))
      w4 == SetCell(w3, 4, 1, Lit("Architecture Summary"))
      w5 == SetCell(w4, 4, 2, Lit("Hub-and-spoke AKS with Application Gateway -> ILB -> Traefik, Private Link, Azure Firewall, Bastion, and Azure Monitor"))
  IN SetCell(w5, 6, 1, Lit("Source Architecture Document (excerpt)"))

\* ws["A7"] = architecture_md
OverviewSheet(date, md) == SetCell(OverviewHead(date), 7, 1, md)

ScoresSheet ==
  LET w0 == [NewSheet(SheetTitles[2]) EXCEPT !.freeze_panes = "A2"]
      w1 == Touch(append(w0, LitRow(scores_headers)), 1, 1, 1, 3)
      w2 == AppendAll(w1, [i \in 1..Len(scores) |->
                             <<Lit(scores[i][1]), PyInt(scores[i][2]), Lit(scores[i][3])>>])
      w3 == Touch(w2, 2, 1 + Len(scores), 1, 3)
      w4 == AddRule(AddRule(AddRule(w3, ScoreRules[1]), ScoreRules[2]), ScoreRules[3])
  IN _apply_table(w4, "ScoresTable", 1, 1, 1 + Len(scores), 3)

RecommendationsSheet ==
  LET w0 == [NewSheet(SheetTitles[3]) EXCEPT !.freeze_panes = "A2"]
      w1 == Touch(append(w0, LitRow(rec_headers)), 1, 1, 1, Len(rec_headers))
      w2 == AppendAll(w1, [i \in 1..Len(recommendations) |->
              LET rec == recommendations[i]
              IN LitRow(<<rec.id, rec.title, rec.pillars, rec.why, rec.risk,
                          rec.priority, rec.effort, rec.cases, rec.docs>>)])
      w3 == Touch(w2, 2, 1 + Len(recommendations), 1, Len(rec_headers))
  IN _apply_table(w3, "RecommendationsTable", 1, 1, 1 + Len(recommendations), Len(rec_headers))

RoadmapSheet ==
  LET w0 == [NewSheet(SheetTitles[4]) EXCEPT !.freeze_panes = "A2"]
      w1 == Touch(append(w0, LitRow(roadmap_headers)), 1, 1, 1, 3)
      w2 == AppendAll(w1, [i \in 1..Len(roadmap) |-> LitRow(roadmap[i])])
      w3 == Touch(w2, 2, 1 + Len(roadmap), 1, 3)
  IN _apply_table(w3, "RoadmapTable", 1, 1, 1 + Len(roadmap), 3)

\* headers = list(support_cases[0].keys())
Headers(cases) == Keys(cases[1])

\* A faulty variant of ItemRow: the values are looked up under the wrong keys.
ItemRow_WrongKey(item, headers) ==
  [j \in 1..Len(headers) |-> DictGet(item, headers[Len(headers) + 1 - j], PyStr(<<>>))]

\* [item.get(h, "") for h in headers]
ItemRow(item, headers) ==
  [j \in 1..Len(headers) |-> DictGet(item, headers[j], PyStr(<<>>))]

\* The rows appended to the SupportCases sheet, in order.
SupportRows(cases) ==
  <<Headers(cases)>> \o [i \in 1..Len(cases) |-> ItemRow(cases[i], Headers(cases))]

SupportCasesSheet(cases) ==
  LET w0 == [NewSheet(SheetTitles[5]) EXCEPT !.freeze_panes = "A2"]
  IN IF cases = <<>> THEN w0
     ELSE LET headers == Headers(cases)
              w1 == Touch(append(w0, headers), 1, 1, 1, Len(headers))
              w2 == AppendAll(w1, Tail(SupportRows(cases)))
              w3 == Touch(w2, 2, 1 + Len(cases), 1, Len(headers))
              w4 == _apply_table(w3, "SupportCasesTable", 1, 1, 1 + Len(cases), Len(headers))
          IN [w4 EXCEPT !.auto_filter = dimensions(w4)]

\* Whether filling the SupportCases sheet raises, and the first row that does.
SupportCasesRaises(cases) ==
  cases # <<>> /\ \E i \in 1..Len(SupportRows(cases)) : AppendRaises(SupportRows(cases)[i])

FirstBadRow(cases) ==
  Min({i \in 1..Len(SupportRows(cases)) : AppendRaises(SupportRows(cases)[i])})

\* ws.append(row) that raises at its first bad value: the cells before it
\* exist, the row counter has not moved.
appendPartial(ws, row) ==
  LET r == ws.current_row + 1
      bad == Min({i \in 1..Len(row) : BindRaises(row[i])})
  IN [ws EXCEPT !.cells = [p \in {r} \X (1..(bad - 1)) |-> Bind(row[p[2]])] @@ ws.cells]

\* The SupportCases sheet as the exception leaves it.
SupportCasesPartial(cases) ==
  LET w0 == [NewSheet(SheetTitles[5]) EXCEPT !.freeze_panes = "A2"]
      bad == FirstBadRow(cases)
  IN appendPartial(AppendAll(w0, SubSeq(SupportRows(cases), 1, bad - 1)),
                   SupportRows(cases)[bad])

(***************************************************************************)
(* The inputs: the two files under ROOT/.github/skills/waf-assessment/mid, *)
(* the directory the output is written to as well, and today's date.       *)
(* fs_log lists the file-system calls made so far.                         *)
(***************************************************************************)
architecture_md_path == ".github/skills/waf-assessment/mid/architecture_document.md"
support_cases_csv_path == ".github/skills/waf-assessment/mid/azure_support_cases.csv"
output_xlsx_path == ".github/skills/waf-assessment/mid/waf_assessment_results.xlsx"

Dates == {[year |-> 2026, month |-> 11, day |-> 2], [year |-> 2025, month |-> 1, day |-> 19]}

\* Architecture documents: empty, "# A\n", "=x", one of exactly the cell
\* limit, one a character longer, one with a BEL, one whose BEL lies beyond
\* the cell limit.
ArchTexts ==
  { <<>>,
    Chr(35) \o Chr(65) \o Chr(10),
    Chr(61) \o Chr(120),
    Rep(120, CellMaxLen),
    Rep(120, CellMaxLen + 1),
    Chr(120) \o Chr(7),
    Rep(120, CellMaxLen) \o Chr(7) }

\* Header lines: k distinct names "a", "b", ..., or the same with the last
\* name repeating the first.
HeaderLine(k, dup) ==
  [j \in 1..k |-> IF dup /\ j = k THEN Chr(97) ELSE Chr(96 + j)]

HeaderLines ==
  {HeaderLine(k, FALSE) : k \in 0..MaxCols} \cup {HeaderLine(k, TRUE) : k \in 2..MaxCols}

\* The i-th data line with k fields: each field a character of its own.
DataLine(i, k) == [j \in 1..k |-> Chr(48 + (i - 1) * (MaxCols + 1) + j)]

\* Files whose lines after the header have 0 (blank) to MaxCols + 1 fields.
ShapedFiles ==
  UNION {{<<h>> \o [i \in 1..n |-> DataLine(i, ks[i])] :
            ks \in [1..n -> 0..(MaxCols + 1)], h \in HeaderLines} : n \in 0..MaxRows}

\* Files with particular field values: an empty field, a field longer than a
\* cell holds, a control character in a field and in a header name, an empty
\* header name, and two rows alike.
SpecialFiles ==
  { <<<<Chr(97), Chr(98)>>, <<<<>>, Chr(49)>>>>,
    <<<<Chr(97), Chr(98)>>, <<Chr(49), Rep(120, CellMaxLen + 1)>>>>,
    <<<<Chr(97), Chr(98)>>, <<Chr(49), Chr(50)>>, <<Chr(7), Chr(51)>>>>,
    <<<<Chr(97), Chr(7)>>, <<Chr(49), Chr(50)>>>>,
    <<<<Chr(97), <<>>>>, <<Chr(49), Chr(50)>>>>,
    <<<<Chr(97), Chr(98)>>, <<Chr(49), Chr(50)>>, <<Chr(49), Chr(50)>>>> }

CsvFiles == {<<>>} \cup ShapedFiles \cup SpecialFiles

Missing(empty) == [state |-> "missing", content |-> empty]
Unreadable(empty) == [state |-> "unreadable", content |-> empty]
Readable(c) == [state |-> "ok", content |-> c]

Stale == [kind |-> "stale"]

Init ==
  /\ pc = "main"
  /\ arch_file \in {Missing(<<>>), Unreadable(<<>>)} \cup {Readable(t) : t \in ArchTexts}
  /\ csv_file \in {Missing(<<>>), Unreadable(<<>>)} \cup {Readable(c) : c \in CsvFiles}
  /\ today \in Dates
  /\ out_dir \in BOOLEAN
  /\ (arch_file.state # "missing" \/ csv_file.state # "missing") => out_dir
  /\ out_file \in {None, Stale}
  /\ out_file # None => out_dir
  /\ fs_log = <<>>
  /\ architecture_md = None
  /\ support_cases = None
  /\ wb = <<>>
  /\ exc = None
  /\ stdout = <<>>
  /\ ret = None

Raise(type, msg) == [type |-> type, msg |-> msg]

Xlsx(book) == [kind |-> "xlsx", sheets |-> book]

(***************************************************************************)
(* main(): the two existence checks.                                       *)
(***************************************************************************)
MainCheckArchitecture ==
  /\ pc = "main"
  /\ fs_log' = Append(fs_log, "exists " \o architecture_md_path)
  /\ \/ /\ arch_file.state = "missing"
        /\ exc' = Raise("FileNotFoundError", "Missing architecture doc: " \o architecture_md_path)
        /\ pc' = "raised"
     \/ /\ arch_file.state # "missing"
        /\ pc' = "main_csv"
        /\ exc' = exc
  /\ UNCHANGED <<arch_file, csv_file, today, out_dir, out_file,
                 architecture_md, support_cases, wb, stdout, ret>>

\* A faulty variant of MainCheckSupportCases: the check is made and its result ignored.
MainCheckSupportCases_Ignored ==
  /\ pc = "main_csv"
  /\ fs_log' = Append(fs_log, "exists " \o support_cases_csv_path)
  /\ pc' = "read_text"
  /\ UNCHANGED <<arch_file, csv_file, today, out_dir, out_file,
                 architecture_md, support_cases, wb, exc, stdout, ret>>

MainCheckSupportCases ==
  /\ pc = "main_csv"
  /\ fs_log' = Append(fs_log, "exists " \o support_cases_csv_path)
  /\ \/ /\ csv_file.state = "missing"
        /\ exc' = Raise("FileNotFoundError", "Missing support cases CSV: " \o support_cases_csv_path)
        /\ pc' = "raised"
     \/ /\ csv_file.state # "missing"
        /\ pc' = "read_text"
        /\ exc' = exc
  /\ UNCHANGED <<arch_file, csv_file, today, out_dir, out_file,
                 architecture_md, support_cases, wb, stdout, ret>>

(***************************************************************************)
(* build_workbook(), statement by statement.                               *)
(***************************************************************************)
\* A faulty variant of ReadText: the output directory is made before the inputs are read.
ReadText_MkdirFirst ==
  /\ pc = "read_text"
  /\ out_dir' = TRUE
  /\ fs_log' = fs_log \o <<"mkdir", "read " \o architecture_md_path>>
  /\ \/ /\ arch_file.state = "ok"
        /\ architecture_md' = PyStr(arch_file.content)
        /\ pc' = "read_csv"
        /\ exc' = exc
     \/ /\ arch_file.state = "unreadable"
        /\ exc' = Raise("UnicodeDecodeError", architecture_md_path)
        /\ pc' = "raised"
        /\ architecture_md' = architecture_md
  /\ UNCHANGED <<arch_file, csv_file, today, out_file,
                 support_cases, wb, stdout, ret>>

\* architecture_md = _read_text(architecture_md_path)
ReadText ==
  /\ pc = "read_text"
  /\ fs_log' = Append(fs_log, "read " \o architecture_md_path)
  /\ \/ /\ arch_file.state = "ok"
        /\ architecture_md' = PyStr(arch_file.content)
        /\ pc' = "read_csv"
        /\ exc' = exc
     \/ /\ arch_file.state = "unreadable"
        /\ exc' = Raise("UnicodeDecodeError", architecture_md_path)
        /\ pc' = "raised"
        /\ architecture_md' = architecture_md
  /\ UNCHANGED <<arch_file, csv_file, today, out_dir, out_file,
                 support_cases, wb, stdout, ret>>

\* support_cases = _read_support_cases(support_cases_csv_path)
ReadSupportCases ==
  /\ pc = "read_csv"
  /\ fs_log' = Append(fs_log, "read " \o support_cases_csv_path)
  /\ \/ /\ csv_file.state = "ok"
        /\ support_cases' = PyList(_read_support_cases(csv_file.content))
        /\ pc' = "overview"
        /\ exc' = exc
     \/ /\ csv_file.state = "unreadable"
        /\ exc' = Raise("UnicodeDecodeError", support_cases_csv_path)
        /\ pc' = "raised"
        /\ support_cases' = support_cases
  /\ UNCHANGED <<arch_file, csv_file, today, out_dir, out_file,
                 architecture_md, wb, stdout, ret>>

\* wb = Workbook() and the Overview sheet
BuildOverview ==
  /\ pc = "overview"
  /\ \/ /\ ~BindRaises(architecture_md)
        /\ wb' = <<OverviewSheet(today, architecture_md)>>
        /\ pc' = "scores"
        /\ exc' = exc
     \/ /\ BindRaises(architecture_md)
        /\ wb' = <<Touch(OverviewHead(today), 7, 7, 1, 1)>>
        /\ exc' = Raise(BindError(architecture_md), "A7")
        /\ pc' = "raised"
  /\ UNCHANGED <<arch_file, csv_file, today, out_dir, out_file, fs_log,
                 architecture_md, support_cases, stdout, ret>>

\* A faulty variant of create_sheet: the sheet is inserted in front (index 0).
create_sheet_Front(book, ws) == <<ws>> \o book

\* ws = wb.create_sheet(title) appends the sheet to the workbook.
create_sheet(book, ws) == Append(book, ws)

BuildScores ==
  /\ pc = "scores"
  /\ wb' = create_sheet(wb, ScoresSheet)
  /\ pc' = "recommendations"
  /\ UNCHANGED <<arch_file, csv_file, today, out_dir, out_file, fs_log,
                 architecture_md, support_cases, exc, stdout, ret>>

BuildRecommendations ==
  /\ pc = "recommendations"
  /\ wb' = create_sheet(wb, RecommendationsSheet)
  /\ pc' = "roadmap"
  /\ UNCHANGED <<arch_file, csv_file, today, out_dir, out_file, fs_log,
                 architecture_md, support_cases, exc, stdout, ret>>

BuildRoadmap ==
  /\ pc = "roadmap"
  /\ wb' = create_sheet(wb, RoadmapSheet)
  /\ pc' = "support_cases"
  /\ UNCHANGED <<arch_file, csv_file, today, out_dir, out_file, fs_log,
                 architecture_md, support_cases, exc, stdout, ret>>

BuildSupportCases ==
  /\ pc = "support_cases"
  /\ \/ /\ ~SupportCasesRaises(support_cases.items)
        /\ wb' = create_sheet(wb, SupportCasesSheet(support_cases.items))
        /\ pc' = "mkdir"
        /\ exc' = exc
     \/ /\ SupportCasesRaises(support_cases.items)
        /\ wb' = create_sheet(wb, SupportCasesPartial(support_cases.items))
        /\ exc' = Raise(AppendError(SupportRows(support_cases.items)[FirstBadRow(support_cases.items)]),
                        "SupportCases")
        /\ pc' = "raised"
  /\ UNCHANGED <<arch_file, csv_file, today, out_dir, out_file, fs_log,
                 architecture_md, support_cases, stdout, ret>>

\* output_xlsx_path.parent.mkdir(parents=True, exist_ok=True)
Mkdir ==
  /\ pc = "mkdir"
  /\ out_dir' = TRUE
  /\ fs_log' = Append(fs_log, "mkdir")
  /\ pc' = "save"
  /\ UNCHANGED <<arch_file, csv_file, today, out_file,
                 architecture_md, support_cases, wb, exc, stdout, ret>>

\* wb.save(output_xlsx_path); return output_xlsx_path
Save ==
  /\ pc = "save"
  /\ out_file' = Xlsx(wb)
  /\ fs_log' = Append(fs_log, "save " \o output_xlsx_path)
  /\ ret' = Lit(output_xlsx_path)
  /\ pc' = "print"
  /\ UNCHANGED <<arch_file, csv_file, today, out_dir,
                 architecture_md, support_cases, wb, exc, stdout>>

\* print(str(out))
MainPrint ==
  /\ pc = "print"
  /\ stdout' = Append(stdout, ret.s)
  /\ pc' = "done"
  /\ UNCHANGED <<arch_file, csv_file, today, out_dir, out_file, fs_log,
                 architecture_md, support_cases, wb, exc, ret>>

Next ==
  \/ MainCheckArchitecture
  \/ MainCheckSupportCases
  \/ ReadText
  \/ ReadSupportCases
  \/ BuildOverview
  \/ BuildScores
  \/ BuildRecommendations
  \/ BuildRoadmap
  \/ BuildSupportCases
  \/ Mkdir
  \/ Save
  \/ MainPrint

Spec == Init /\ [][Next]_vars

(***************************************************************************)
(* Vocabulary of the properties.                                           *)
(***************************************************************************)
Saved == out_file.kind = "xlsx"
Titles(book) == [i \in 1..Len(book) |-> book[i].title]
RowsOf(ws) == {p[1] : p \in DOMAIN ws.cells}
ColsOf(ws) == {p[2] : p \in DOMAIN ws.cells}
Calls(prefix) == {i \in 1..Len(fs_log) : fs_log[i] = prefix}
IsData(line) == line # <<>>
\* The header line of the CSV file and its non-blank lines after it.
HeaderFields == IF csv_file.content = <<>> THEN <<>> ELSE Head(csv_file.content)
DataRows == IF csv_file.content = <<>> THEN <<>> ELSE SelectSeq(Tail(csv_file.content), IsData)
Distinct(seq) == \A i, j \in 1..Len(seq) : i # j => seq[i] # seq[j]
ColumnName == <<"A", "B", "C", "D", "E", "F", "G", "H", "I">>

(***************************************************************************)
(* C1: a saved workbook holds exactly the five sheets Overview, Scores,    *)
(* Recommendations, Roadmap, SupportCases, in this order, whatever the     *)
(* inputs were.                                                            *)
(***************************************************************************)
C1_FiveSheetsInOrder ==
  Saved => Titles(out_file.sheets) =
             <<"Overview", "Scores", "Recommendations", "Roadmap", "SupportCases">>

C1_Witness == Saved /\ DataRows = <<>> /\ pc = "done"

(***************************************************************************)
(* C2 as claimed: whenever the CSV has N >= 1 data rows, the saved         *)
(* SupportCases sheet has N+1 rows and as many columns as the header has   *)
(* fields, row 1 holds the header names in file order and row i+1 holds    *)
(* all field values of the i-th data row, unaltered, in column order.      *)
(***************************************************************************)
C2_Original ==
  (Saved /\ Len(DataRows) >= 1) =>
    LET ws == out_file.sheets[5]
    IN /\ RowsOf(ws) = 1..(Len(DataRows) + 1)
       /\ ColsOf(ws) = 1..Len(HeaderFields)
       /\ \A j \in 1..Len(HeaderFields) :
            <<1, j>> \in DOMAIN ws.cells /\ ws.cells[<<1, j>>].value = PyStr(HeaderFields[j])
       /\ \A i \in 1..Len(DataRows) : \A j \in 1..Len(DataRows[i]) :
            /\ <<i + 1, j>> \in DOMAIN ws.cells
            /\ ws.cells[<<i + 1, j>>].value = PyStr(DataRows[i][j])

(***************************************************************************)
(* C2 amended: when the header names are pairwise distinct and no data row *)
(* has more fields than the header, the saved SupportCases sheet has N+1   *)
(* rows and as many columns as the header has fields; row 1 holds the      *)
(* header names in file order and row i+1 holds the fields of the i-th     *)
(* non-blank data row in its leading columns, every string cut to the      *)
(* 32767 characters a cell holds.                                          *)
(***************************************************************************)
WellFormedCsv ==
  /\ Len(DataRows) >= 1
  /\ Distinct(HeaderFields)
  /\ \A i \in 1..Len(DataRows) : Len(DataRows[i]) <= Len(HeaderFields)

C2_PassThrough ==
  (Saved /\ WellFormedCsv) =>
    LET ws == out_file.sheets[5]
    IN /\ DOMAIN ws.cells = (1..(Len(DataRows) + 1)) \X (1..Len(HeaderFields))
       /\ \A j \in 1..Len(HeaderFields) :
            ws.cells[<<1, j>>].value = PyStr(Take(HeaderFields[j], 32767))
       /\ \A i \in 1..Len(DataRows) : \A j \in 1..Len(DataRows[i]) :
            ws.cells[<<i + 1, j>>].value = PyStr(Take(DataRows[i][j], 32767))

C2_Witness ==
  /\ Saved /\ WellFormedCsv
  /\ Len(DataRows) = 2 /\ Len(HeaderFields) = 2
  /\ Len(csv_file.content) = 3

(***************************************************************************)
(* C3 as claimed: in the saved Overview sheet A7 holds the complete        *)
(* architecture text as read, B3 the ISO date, and every other cell a      *)
(* fixed literal.                                                          *)
(***************************************************************************)
IsoDate ==
  CASE today = [year |-> 2026, month |-> 11, day |-> 2] -> "2026-11-02"
    [] today = [year |-> 2025, month |-> 1, day |-> 19] -> "2025-01-19"

OverviewLiterals(ws) ==
  /\ DOMAIN ws.cells = {<<1, 1>>, <<3, 1>>, <<3, 2>>, <<4, 1>>, <<4, 2>>, <<6, 1>>, <<7, 1>>}
  /\ ws.cells[<<1, 1>>].value = Lit("Well-Architected Framework (WAF) Assessment")
  /\ ws.cells[<<3, 1>>].value = Lit("Assessment Date")
  /\ ws.cells[<<4, 1>>].value = Lit("Architecture Summary")
  /\ ws.cells[<<4, 2>>].value = Lit("Hub-and-spoke AKS with Application Gateway -> ILB -> Traefik, Private Link, Azure Firewall, Bastion, and Azure Monitor")
  /\ ws.cells[<<6, 1>>].value = Lit("Source Architecture Document (excerpt)")
  /\ ws.cells[<<3, 2>>].value = Lit(IsoDate)

C3_Original ==
  Saved => /\ OverviewLiterals(out_file.sheets[1])
           /\ out_file.sheets[1].cells[<<7, 1>>].value = PyStr(arch_file.content)

(***************************************************************************)
(* C3 amended: in the saved Overview sheet A7 holds the first 32767        *)
(* characters of the architecture text (the whole text when it is no       *)
(* longer), B3 the ISO date, and every other cell a fixed literal.         *)
(***************************************************************************)
C3_OverviewCopiesInputs ==
  Saved => /\ OverviewLiterals(out_file.sheets[1])
           /\ out_file.sheets[1].cells[<<7, 1>>].value = PyStr(Take(arch_file.content, 32767))
           /\ (StrLen(arch_file.content) <= 32767 =>
                 out_file.sheets[1].cells[<<7, 1>>].value = PyStr(arch_file.content))

C3_Witness ==
  /\ Saved
  /\ StrLen(arch_file.content) > 32767
  /\ StrLen(out_file.sheets[1].cells[<<7, 1>>].value.runs) = 32767
  /\ today.day = 2

(***************************************************************************)
(* C4: main checks the architecture document first and the CSV second; a   *)
(* missing file raises FileNotFoundError naming its path, and then         *)
(* build_workbook is never called, nothing is read, created, written or    *)
(* printed.                                                                *)
(***************************************************************************)
C4_ExistenceChecks ==
  /\ (arch_file.state = "missing" /\ pc # "main") =>
        /\ pc = "raised"
        /\ exc = Raise("FileNotFoundError",
             "Missing architecture doc: .github/skills/waf-assessment/mid/architecture_document.md")
        /\ fs_log = <<"exists .github/skills/waf-assessment/mid/architecture_document.md">>
  /\ (arch_file.state # "missing" /\ csv_file.state = "missing" /\ pc \notin {"main", "main_csv"}) =>
        /\ pc = "raised"
        /\ exc = Raise("FileNotFoundError",
             "Missing support cases CSV: .github/skills/waf-assessment/mid/azure_support_cases.csv")
        /\ fs_log = <<"exists .github/skills/waf-assessment/mid/architecture_document.md",
                      "exists .github/skills/waf-assessment/mid/azure_support_cases.csv">>
  /\ (exc # None /\ exc.type = "FileNotFoundError") =>
        /\ architecture_md = None /\ support_cases = None /\ wb = <<>>
        /\ ret = None /\ stdout = <<>> /\ ~Saved
  /\ (arch_file.state = "missing" \/ csv_file.state = "missing") =>
        /\ pc \in {"main", "main_csv", "raised"}
        /\ wb = <<>> /\ stdout = <<>> /\ ~Saved

C4_Witness ==
  /\ arch_file.state = "missing" /\ csv_file.state = "missing"
  /\ pc = "raised" /\ ~out_dir

(***************************************************************************)
(* C5: both inputs are read before any sheet is built, the five sheets are *)
(* built before the output directory is made and the workbook saved, the   *)
(* file is written once, as the last file-system call, a failed read       *)
(* leaves the output untouched, and the returned path is the output path.  *)
(***************************************************************************)
C5_SaveOnceAndLast ==
  /\ wb # <<>> =>
        /\ architecture_md # None /\ support_cases # None
        /\ Calls("read .github/skills/waf-assessment/mid/architecture_document.md") # {}
        /\ Calls("read .github/skills/waf-assessment/mid/azure_support_cases.csv") # {}
  /\ (Calls("mkdir") # {} \/ Saved) => (Len(wb) = 5 /\ exc = None)
  /\ Cardinality(Calls("save .github/skills/waf-assessment/mid/waf_assessment_results.xlsx")) <= 1
  /\ Saved <=> (fs_log # <<>> /\
                 fs_log[Len(fs_log)] = "save .github/skills/waf-assessment/mid/waf_assessment_results.xlsx")
  /\ Saved => (Len(fs_log) > 1 /\ fs_log[Len(fs_log) - 1] = "mkdir" /\ out_file.sheets = wb)
  /\ (exc # None /\ exc.type = "UnicodeDecodeError") =>
        (wb = <<>> /\ ~Saved /\ Calls("mkdir") = {})
  /\ pc \in {"print", "done"} <=> ret # None
  /\ ret # None => (Saved /\ ret = Lit(".github/skills/waf-assessment/mid/waf_assessment_results.xlsx"))

C5_Witness == pc = "done" /\ Saved /\ Len(fs_log) = 6 /\ Len(DataRows) >= 1

(***************************************************************************)
(* C6: when the CSV has no data rows (an empty file, or only a header and  *)
(* blank lines), the SupportCases sheet is created with no cell, no table  *)
(* and no auto-filter, filling it never fails, and the workbook is saved   *)
(* with the other four sheets populated.                                   *)
(***************************************************************************)
NoDataRows == csv_file.state = "ok" /\ DataRows = <<>>

Populated(ws, nrows, ncols) ==
  /\ DOMAIN ws.cells = (1..nrows) \X (1..ncols)
  /\ \A p \in DOMAIN ws.cells : ws.cells[p].value # None
  /\ Len(ws.tables) = 1

C6_EmptyCsvEmptySheet ==
  NoDataRows =>
    /\ pc = "raised" => Len(wb) <= 1
    /\ Len(wb) = 5 =>
         /\ wb[5].title = "SupportCases"
         /\ DOMAIN wb[5].cells = {}
         /\ wb[5].tables = <<>>
         /\ wb[5].auto_filter = ""
         /\ pc \in {"mkdir", "save", "print", "done"}
    /\ pc = "done" =>
         /\ Saved /\ out_file.sheets = wb /\ Len(wb) = 5
         /\ Cardinality(DOMAIN wb[1].cells) = 7
         /\ Populated(wb[2], 7, 3)
         /\ Populated(wb[3], 7, 9)
         /\ Populated(wb[4], 4, 3)

C6_Witness ==
  /\ NoDataRows /\ pc = "done" /\ Saved
  /\ Len(csv_file.content) >= 2 /\ Len(HeaderFields) >= 1

(***************************************************************************)
(* C7 as claimed: in a saved workbook, a data row with fewer fields than   *)
(* the header keeps its fields in their columns and holds the empty string *)
(* in every column whose field is missing (header names distinct, no row   *)
(* longer than the header).                                                *)
(***************************************************************************)
C7_MissingFieldsAreEmptyStrings ==
  (Saved /\ WellFormedCsv) =>
    LET ws == out_file.sheets[5]
    IN \A i \in 1..Len(DataRows) : \A j \in 1..Len(HeaderFields) :
         /\ <<i + 1, j>> \in DOMAIN ws.cells
         /\ ws.cells[<<i + 1, j>>].value =
              IF j <= Len(DataRows[i]) THEN PyStr(Take(DataRows[i][j], 32767))
              ELSE PyStr(<<>>)

(***************************************************************************)
(* C8 as claimed: ScoresTable is A1:C7, RecommendationsTable A1:I7,        *)
(* RoadmapTable A1:C4 and, for N >= 1 data rows and K header fields,       *)
(* SupportCasesTable spans rows 1..N+1 and columns 1..K, which is also the *)
(* auto-filter range; every table covers all cells of its sheet, a sheet   *)
(* has at most one table and the table names differ.                       *)
(***************************************************************************)
TableIs(ws, name, nrows, ncols) ==
  /\ Len(ws.tables) = 1
  /\ ws.tables[1].displayName = name
  /\ ws.tables[1].ref = "A1:" \o ColumnName[ncols] \o ToString(nrows)
  /\ DOMAIN ws.cells = (1..nrows) \X (1..ncols)

TablesCover(book, k) ==
  /\ book[1].tables = <<>>
  /\ TableIs(book[2], "ScoresTable", 7, 3)
  /\ book[2].tables[1].ref = "A1:C7"
  /\ TableIs(book[3], "RecommendationsTable", 7, 9)
  /\ book[3].tables[1].ref = "A1:I7"
  /\ TableIs(book[4], "RoadmapTable", 4, 3)
  /\ book[4].tables[1].ref = "A1:C4"
  /\ Len(DataRows) >= 1 =>
       /\ TableIs(book[5], "SupportCasesTable", Len(DataRows) + 1, k)
       /\ book[5].auto_filter = book[5].tables[1].ref
  /\ Len(DataRows) = 0 => book[5].tables = <<>>
  /\ \A a, b \in 2..4 : a # b => book[a].tables[1].displayName # book[b].tables[1].displayName
  /\ \A a \in 2..4 : book[a].tables[1].displayName # "SupportCasesTable"

C8_Original == Saved => TablesCover(out_file.sheets, Len(HeaderFields))

(***************************************************************************)
(* C8 amended: the same, with K the number of distinct header names (the   *)
(* number of columns the SupportCases sheet has).                          *)
(***************************************************************************)
DistinctHeaderNames == {HeaderFields[j] : j \in 1..Len(HeaderFields)}

C8_TablesCoverSheets == Saved => TablesCover(out_file.sheets, Cardinality(DistinctHeaderNames))

C8_Witness ==
  /\ Saved /\ Len(DataRows) = 2
  /\ Len(HeaderFields) = 2 /\ Cardinality(DistinctHeaderNames) = 1
  /\ out_file.sheets[5].tables[1].ref = "A1:A3"

(***************************************************************************)
(* C9: the three conditional-formatting rules of the Scores sheet (less    *)
(* than 60, between 60 and 79, at least 80) format every integer score in  *)
(* 0..100 by exactly one rule, and all three apply to B2:B7, which is      *)
(* every score cell and not the header row.                                *)
(***************************************************************************)
C9_BandsPartition ==
  Len(wb) >= 2 =>
    LET ws == wb[2]
        rules == ws.conditional_formatting
    IN /\ Len(rules) = 3
       /\ \A v \in 0..100 :
            /\ Cardinality({k \in 1..3 : RuleApplies(rules[k], v)}) = 1
            /\ RuleApplies(rules[1], v) <=> v < 60
            /\ RuleApplies(rules[2], v) <=> (60 <= v /\ v <= 79)
            /\ RuleApplies(rules[3], v) <=> v >= 80
       /\ \A k \in 1..3 : rules[k].range = "B2:B7"
       /\ {p \in DOMAIN ws.cells : ws.cells[p].value.kind = "int"} = (2..7) \X {2}
       /\ ws.cells[<<1, 2>>].value = Lit("Score")

C9_Witness == pc = "recommendations" /\ Len(wb) = 2 /\ Len(wb[2].conditional_formatting) = 3

(***************************************************************************)
(* C10: every score of the Scores sheet is an integer in 0..100, the       *)
(* Overall score is the arithmetic mean of the five pillar scores, and no  *)
(* row labelled Fair scores as much as a row labelled Good.                *)
(***************************************************************************)
C10_ScoresConsistent ==
  Len(wb) >= 2 =>
    LET ws == wb[2]
        name(r) == ws.cells[<<r, 1>>].value.s
        score(r) == ws.cells[<<r, 2>>].value.i
        status(r) == ws.cells[<<r, 3>>].value.s
    IN /\ \A r \in 2..7 : ws.cells[<<r, 2>>].value.kind = "int" /\ score(r) \in 0..100
       /\ {name(r) : r \in 2..6} = {"Reliability", "Security", "Cost Optimization",
                                     "Operational Excellence", "Performance Efficiency"}
       /\ name(7) = "Overall"
       /\ 5 * score(7) = score(2) + score(3) + score(4) + score(5) + score(6)
       /\ \A a, b \in 2..7 : (status(a) = "Fair" /\ status(b) = "Good") => score(a) < score(b)
       /\ \E a, b \in 2..7 : status(a) = "Fair" /\ status(b) = "Good"

C10_Witness == Len(wb) = 2 /\ wb[2].cells[<<7, 2>>].value = PyInt(70) /\ pc = "recommendations"

====
